---- MODULE Spec2Model ----
(***************************************************************************)
(* The two tree analyses of the TypeScript worker (src/src/tsWorker.ts):   *)
(*   getPropertiesOrAttributesOf  - the reference extractor                *)
(*   getOutline                   - the outline builder                    *)
(* A syntax tree is a nested record; JavaScript strings are TLA+ strings.  *)
(***************************************************************************)
EXTENDS Integers, Sequences, FiniteSets, TLC

(***************************************************************************)
(* JavaScript string helpers used by the name heuristics.                  *)
(***************************************************************************)
WhiteSpace == {" ", "\n", "\t"}

RECURSIVE TrimStart(_)
TrimStart(s) ==
    IF Len(s) > 0 /\ SubSeq(s, 1, 1) \in WhiteSpace
    THEN TrimStart(SubSeq(s, 2, Len(s)))
    ELSE s

RECURSIVE TrimEnd(_)
TrimEnd(s) ==
    IF Len(s) > 0 /\ SubSeq(s, Len(s), Len(s)) \in WhiteSpace
    THEN TrimEnd(SubSeq(s, 1, Len(s) - 1))
    ELSE s

\* String.prototype.trim
Trim(s) == TrimEnd(TrimStart(s))

\* s.split('\n') followed by taking the last element
RECURSIVE LastLineFrom(_, _)
LastLineFrom(s, i) ==
    IF i = 0 THEN s
    ELSE IF SubSeq(s, i, i) = "\n" THEN SubSeq(s, i + 1, Len(s))
    ELSE LastLineFrom(s, i - 1)

LastLine(s) == LastLineFrom(s, Len(s))

\* s.slice(1, -1)
Slice1(s) == IF Len(s) >= 2 THEN SubSeq(s, 2, Len(s) - 1) ELSE ""

\* ts.escapeLeadingUnderscores: the escapedText of an identifier
EscapeLeadingUnderscores(s) ==
    IF Len(s) >= 2 /\ SubSeq(s, 1, 2) = "__" THEN "_" \o s ELSE s

(***************************************************************************)
(* Syntax nodes (owned by the compiler front end).  Every node is a record *)
(* with the same fields:                                                   *)
(*   kind     ts.SyntaxKind of the node                                    *)
(*   text     source text of a leaf (getText())                            *)
(*   name     the node's name child, or NoName                             *)
(*   op       operatorToken of a BinaryExpression                          *)
(*   type     what typeChecker.getTypeAtLocation answers for the node      *)
(*   trivia   leading trivia (getFullText() = trivia + getText())          *)
(*   line     line of getStart()                                           *)
(*   children the children ts.forEachChild visits, in source order, less   *)
(*            the name child (an Identifier or literal leaf: neither       *)
(*            visitor acts on it)                                          *)
(***************************************************************************)
NoName == [kind |-> "undefined", text |-> ""]
Ident(s) == [kind |-> "Identifier", text |-> s]
StrName(s) == [kind |-> "StringLiteral", text |-> s]
ComputedName == [kind |-> "ComputedPropertyName", text |-> ""]

\* a ts.Type: flags and, for literal types, the own property `value`
AnyType == [flags |-> "Any", value |-> ""]
StringLiteralType(s) == [flags |-> "StringLiteral", value |-> s]
NumberLiteralType(s) == [flags |-> "NumberLiteral", value |-> s]

Node(kind, name, children) ==
    [kind |-> kind, text |-> "", name |-> name, op |-> "", type |-> AnyType,
     trivia |-> "", line |-> 0, children |-> children]

Leaf(kind, text) == [Node(kind, NoName, <<>>) EXCEPT !.text = text]

NoSourceFile == Leaf("undefined", "")

\* the node placed on line l / with leading trivia t / of static type ty
At(l, node) == [node EXCEPT !.line = l]
WithTrivia(t, node) == [node EXCEPT !.trivia = t]
OfType(ty, node) == [node EXCEPT !.type = ty]

Identifier(s) == Leaf("Identifier", s)
StringLiteral(s) == Leaf("StringLiteral", "\"" \o s \o "\"")
NumericLiteral(s) == Leaf("NumericLiteral", s)
PropertyAccess(e, n) == Node("PropertyAccessExpression", Ident(n), <<e>>)
ElementAccess(e, a) == Node("ElementAccessExpression", NoName, <<e, a>>)
Call(e, args) == Node("CallExpression", NoName, <<e>> \o args)
Binary(l, o, r) == [Node("BinaryExpression", NoName, <<l, r>>) EXCEPT !.op = o]
ExpressionStatement(e) == Node("ExpressionStatement", NoName, <<e>>)
Block(stmts) == Node("Block", NoName, stmts)
SourceFile(stmts) == Node("SourceFile", NoName, stmts)

\* node.expression / node.argumentExpression / node.left
Expression(node) == node.children[1]
ArgumentExpression(node) == node.children[2]
Left(node) == node.children[1]

\* node.getText(): the exact span, without the leading trivia
RECURSIVE GetText(_)
GetText(node) ==
    CASE node.kind = "PropertyAccessExpression" ->
            GetText(Expression(node)) \o "." \o node.name.text
      [] node.kind = "ElementAccessExpression" ->
            GetText(Expression(node)) \o "["
                \o ArgumentExpression(node).trivia
                \o GetText(ArgumentExpression(node)) \o "]"
      [] OTHER -> node.text

\* node.getFullText(): the span with the leading trivia
GetFullText(node) == node.trivia \o GetText(node)

(***************************************************************************)
(* getOutline: the helpers of the outline builder.                         *)
(***************************************************************************)
CodeOutlineTokenKind ==
    {"Class", "ObjectLiteral", "Method", "Constructor", "Function", "Get", "Set"}

\* the result is "" where the code's result is undefined: every caller
\* applies `|| <default>`, which treats the two alike
getEscapedTextOfIdentifierOrLiteral(name) ==
    IF name.kind = "undefined" THEN ""
    ELSE IF name.kind = "Identifier" THEN EscapeLeadingUnderscores(name.text)
    ELSE name.text

Token(name, kind, ord, line, indent) ==
    [name |-> name, kind |-> kind, ordinal |-> ord, line |-> line,
     indentAmount |-> indent]

\* a || b on strings
OrElse(a, b) == IF a # "" THEN a ELSE b

\* property.initializer of a PropertyAssignment
HasInitializer(property) == Len(property.children) >= 1
Initializer(property) == property.children[1]

\* extractLiteral, lines 519-543: does the literal have a method or accessor
PropertyCountsAsMethod(property) ==
    \/ property.kind = "MethodDeclaration"
    \/ /\ property.kind = "PropertyAssignment"
       /\ HasInitializer(property)
       /\ Initializer(property).kind \in {"FunctionDeclaration", "FunctionExpression"}

didExtractLiteral(literalNode) ==
    \E i \in 1..Len(literalNode.children) :
        \/ literalNode.children[i].kind \in {"GetAccessor", "SetAccessor"}
        \/ PropertyCountsAsMethod(literalNode.children[i])

\* name taken from the callee of a parent call expression; trimLast tells
\* whether the last line is trimmed again (extractMethod does, extractLiteral
\* does not)
CalleeName(parentNode, trimLast) ==
    LET name == Trim(GetFullText(Expression(parentNode)))
        last == LastLine(name)
    IN  IF name = "" THEN ""
        ELSE (IF trimLast THEN Trim(last) ELSE last) \o "()"

\* name taken from the left side of a parent `=` assignment
AssignmentName(parentNode, trimLast) ==
    LET left == Left(parentNode)
        last == LastLine(Trim(GetFullText(left)))
    IN  IF parentNode.op # "=" THEN ""
        ELSE CASE left.kind = "VariableDeclaration" ->
                    getEscapedTextOfIdentifierOrLiteral(left.name)
               [] left.kind = "PropertyAccessExpression" ->
                    IF trimLast THEN Trim(last) ELSE last
               [] OTHER -> ""

\* extractLiteral, lines 549-590: the name of a literal that is extracted
LiteralName(parentNode) ==
    CASE parentNode.kind \in {"VariableDeclaration", "PropertyAssignment"} ->
            getEscapedTextOfIdentifierOrLiteral(parentNode.name)
      [] parentNode.kind = "CallExpression" -> CalleeName(parentNode, FALSE)
      [] parentNode.kind = "BinaryExpression" -> AssignmentName(parentNode, FALSE)
      [] OTHER -> ""

\* In the three extract operators ord is the counter after its increment
\* (ordinal++ comes first: lines 546, 605, 626).

\* extractLiteral: the tokens it pushes (none or one)
extractLiteral(literalNode, parentNode, ord, indent) ==
    IF didExtractLiteral(literalNode)
    THEN <<Token(OrElse(LiteralName(parentNode), "{}"), "ObjectLiteral",
                 ord, literalNode.line, indent)>>
    ELSE <<>>

\* extractClass: the token it pushes
extractClass(classNode, ord, indent) ==
    IF classNode.name.kind # "undefined"
    THEN <<Token(getEscapedTextOfIdentifierOrLiteral(classNode.name), "Class",
                 ord, classNode.line, indent)>>
    ELSE <<Token("{}", "Class", ord, classNode.line, indent)>>

\* extractMethod, lines 630-673: the name computed from the parent
MethodParentName(parentNode) ==
    CASE parentNode.kind \in {"PropertyAssignment", "VariableDeclaration"} ->
            getEscapedTextOfIdentifierOrLiteral(parentNode.name)
      [] parentNode.kind = "CallExpression" -> CalleeName(parentNode, TRUE)
      [] parentNode.kind = "BinaryExpression" -> AssignmentName(parentNode, TRUE)
      [] OTHER -> ""

isMethodKind(parentNode) == parentNode.kind = "PropertyAssignment"

\* extractMethod, lines 675-738: the tokens it pushes (none or one)
extractMethod(methodNode, parentNode, ord, indent) ==
    LET name == MethodParentName(parentNode)
        own == getEscapedTextOfIdentifierOrLiteral(methodNode.name)
        line == methodNode.line
    IN  CASE methodNode.kind = "Constructor" ->
                <<Token("constructor ()", "Constructor", ord, line, indent)>>
          [] methodNode.kind = "MethodDeclaration" ->
                <<Token(OrElse(own, "{}"), "Method", ord, line, indent)>>
          [] methodNode.kind \in {"FunctionExpression", "FunctionDeclaration"} ->
                <<Token(OrElse(own, OrElse(name, "{}")),
                        IF isMethodKind(parentNode) THEN "Method" ELSE "Function",
                        ord, line, indent)>>
          [] methodNode.kind = "GetAccessor" ->
                <<Token(OrElse(own, "()"), "Get", ord, line, indent)>>
          [] methodNode.kind = "SetAccessor" ->
                <<Token(OrElse(own, "()"), "Set", ord, line, indent)>>
          [] methodNode.kind = "ArrowFunction" ->
                <<Token(OrElse(own, OrElse(name, "() => {}")), "Function",
                        ord, line, indent)>>
          [] OTHER -> <<>>

ClassKinds == {"ClassExpression", "ClassDeclaration"}

MethodKinds ==
    {"MethodDeclaration", "MethodSignature", "FunctionDeclaration",
     "FunctionExpression", "GetAccessor", "SetAccessor", "Constructor",
     "ArrowFunction"}

\* OrdinalAfter with the increment of extractClass left out
OrdinalAfterSkippingClass(node, ord) ==
    CASE node.kind = "ObjectLiteralExpression" ->
            IF didExtractLiteral(node) THEN ord + 1 ELSE ord
      [] node.kind \in MethodKinds -> ord + 1
      [] OTHER -> ord

\* the ordinal counter after entering a node: extractClass and extractMethod
\* increment it on entry, extractLiteral only when it extracts
OrdinalAfter(node, ord) ==
    CASE node.kind = "ObjectLiteralExpression" ->
            IF didExtractLiteral(node) THEN ord + 1 ELSE ord
      [] node.kind \in ClassKinds -> ord + 1
      [] node.kind \in MethodKinds -> ord + 1
      [] OTHER -> ord

\* buildOutline, lines 743-770: the tokens pushed on entering a node when the
\* counter is ord and the indentation is indent
PushedTokens(node, parentNode, ord, indent) ==
    CASE node.kind = "ObjectLiteralExpression" ->
            extractLiteral(node, parentNode, OrdinalAfter(node, ord), indent)
      [] node.kind \in ClassKinds ->
            extractClass(node, OrdinalAfter(node, ord), indent)
      [] node.kind \in MethodKinds ->
            extractMethod(node, parentNode, OrdinalAfter(node, ord), indent)
      [] OTHER -> <<>>

\* didIndent with every object literal indenting, extracted or not
didIndentEveryLiteral(node) ==
    node.kind \in {"ObjectLiteralExpression"} \cup ClassKinds \cup MethodKinds

\* buildOutline: didIndent after the switch
didIndent(node) ==
    CASE node.kind = "ObjectLiteralExpression" -> didExtractLiteral(node)
      [] node.kind \in ClassKinds -> TRUE
      [] node.kind \in MethodKinds -> TRUE
      [] OTHER -> FALSE

\* IndentationAfterChildren without the decrement
IndentationKept(indented, indent) == indent

\* buildOutline, line 773: indentation once the children are traversed
IndentationAfterChildren(indented, indent) ==
    IF indented THEN indent - 1 ELSE indent

(***************************************************************************)
(* getPropertiesOrAttributesOf: the reference extractor.                   *)
(*                                                                         *)
(* referencedEntities is created by the object literal {} (line 441), so   *)
(* it inherits from Object.prototype, and so does every member object {}   *)
(* (line 443).  A lookup referencedEntities[text] and the test             *)
(* `name in referencedEntities[text]` both consult the prototype chain.    *)
(* The state of one call is the record                                     *)
(*   own        own keys of referencedEntities -> own keys of the member   *)
(*              object (each set to true)                                  *)
(*   localProto whether `referencedEntities["__proto__"] = {}` ran: the    *)
(*              inherited setter then makes a fresh {} the prototype       *)
(*   protoOwn   own keys of that fresh prototype object                    *)
(*   proto      own keys added to Object.prototype itself (value true);    *)
(*              Object.prototype outlives the call                         *)
(*   threw      whether a TypeError was thrown                             *)
(***************************************************************************)
\* properties every object inherits from Object.prototype
ObjectPrototypeNames ==
    {"constructor", "__proto__", "hasOwnProperty", "isPrototypeOf",
     "propertyIsEnumerable", "toLocaleString", "toString", "valueOf"}

\* lines 441-444: referencedEntities after parentObjects.forEach
RECURSIVE InitialEntities(_, _, _)
InitialEntities(parentObjects, i, st) ==
    IF i > Len(parentObjects) THEN st
    ELSE LET key == parentObjects[i]
         IN  InitialEntities(parentObjects, i + 1,
                IF key = "__proto__"
                THEN [st EXCEPT !.localProto = TRUE, !.protoOwn = {}]
                ELSE [st EXCEPT !.own =
                        [k \in DOMAIN st.own \cup {key} |-> 
                            IF k = key THEN {} ELSE st.own[k]]])

NewCall(proto) ==
    [own |-> [k \in {} |-> {}], localProto |-> FALSE, protoOwn |-> {},
     proto |-> proto, threw |-> FALSE]

\* referencedEntities[text]: which value the lookup yields
\*   <<"members", text>>  the member object stored under the own key text
\*   <<"prototype">>      the prototype of referencedEntities
\*   <<"true">>           an inherited property that was set to true
\*   <<"function">>       a built-in method of Object.prototype
\*   <<"undefined">>
Lookup(st, text) ==
    IF text \in DOMAIN st.own THEN <<"members", text>>
    ELSE IF text = "__proto__" THEN <<"prototype">>
    ELSE IF st.localProto /\ text \in st.protoOwn THEN <<"true">>
    ELSE IF text \in st.proto THEN <<"true">>
    ELSE IF text \in ObjectPrototypeNames THEN <<"function">>
    ELSE <<"undefined">>

Truthy(value) == value[1] # "undefined"

InObjectPrototype(st, name) == name \in ObjectPrototypeNames \cup st.proto

\* `name in target` for a target that is an object
In(st, name, target) ==
    CASE target[1] = "members" ->
            name \in st.own[target[2]] \/ InObjectPrototype(st, name)
      [] target[1] = "prototype" ->
            \/ st.localProto /\ name \in st.protoOwn
            \/ InObjectPrototype(st, name)
      [] OTHER -> TRUE

\* `target[name] = true` in strict mode.  Assigning to a primitive throws;
\* "__proto__" reaches the inherited setter, which ignores a non-object; a
\* property put on a built-in method never shows in any result.
Assign(st, target, name) ==
    CASE target[1] = "true" -> [st EXCEPT !.threw = TRUE]
      [] target[1] = "function" -> st
      [] name = "__proto__" -> st
      [] target[1] = "members" ->
            [st EXCEPT !.own[target[2]] = @ \cup {name}]
      [] target[1] = "prototype" ->
            IF st.localProto
            THEN [st EXCEPT !.protoOwn = @ \cup {name}]
            ELSE [st EXCEPT !.proto = @ \cup {name}]
      [] OTHER -> st

\* lines 457-459: record the member of a property access, unless
\* `name in target` already holds (the operator throws on a primitive)
RecordMember(st, target, name) ==
    IF target[1] = "true" THEN [st EXCEPT !.threw = TRUE]
    ELSE IF In(st, name, target) THEN st
    ELSE Assign(st, target, name)

\* line 478: 'value' in type; line 479: the key type.value converts to
HasValue(st, type) ==
    type.flags \in {"StringLiteral", "NumberLiteral"} \/ "value" \in st.proto

ValueKey(type) ==
    IF type.flags \in {"StringLiteral", "NumberLiteral"} THEN type.value ELSE "true"

\* PrincipalCase without the test of the base text
PrincipalCaseAnyBase(st, text, argument) ==
    IF argument.kind = "Identifier" /\ GetText(argument) = "principal"
    THEN Assign(st, Lookup(st, "Users"), "System")
    ELSE st

\* lines 465-474: the Users[principal] special case
PrincipalCase(st, text, argument) ==
    IF /\ argument.kind = "Identifier"
       /\ text = "Users"
       /\ GetText(argument) = "principal"
    THEN Assign(st, Lookup(st, "Users"), "System")
    ELSE st

\* IndexCase recording the text of any other index expression as well
IndexCaseAnyText(st, text, argument) ==
    IF argument.kind = "PropertyAccessExpression"
    THEN IF HasValue(st, argument.type)
         THEN Assign(st, Lookup(st, text), ValueKey(argument.type))
         ELSE st
    ELSE IF argument.kind = "StringLiteral"
    THEN Assign(st, Lookup(st, text), Slice1(GetText(argument)))
    ELSE Assign(st, Lookup(st, text), GetText(argument))

\* lines 475-486: an index that is a property access or a string literal
IndexCase(st, text, argument) ==
    IF argument.kind = "PropertyAccessExpression"
    THEN IF HasValue(st, argument.type)
         THEN Assign(st, Lookup(st, text), ValueKey(argument.type))
         ELSE st
    ELSE IF argument.kind = "StringLiteral"
    THEN Assign(st, Lookup(st, text), Slice1(GetText(argument)))
    ELSE st

\* lines 452-487: what visitNodes does at one node
VisitOne(st, node) ==
    IF /\ node.kind = "PropertyAccessExpression"
       /\ Truthy(Lookup(st, GetText(Expression(node))))
    THEN RecordMember(st, Lookup(st, GetText(Expression(node))), node.name.text)
    ELSE IF /\ node.kind = "ElementAccessExpression"
            /\ Truthy(Lookup(st, GetText(Expression(node))))
    THEN LET text == GetText(Expression(node))
             st1 == PrincipalCase(st, text, ArgumentExpression(node))
         IN  IF st1.threw THEN st1
             ELSE IndexCase(st1, text, ArgumentExpression(node))
    ELSE st

\* lines 451-489: visitNodes, and ts.forEachChild(node, visitNodes); an
\* exception ends the walk
RECURSIVE visitNodes(_, _)
RECURSIVE ForEachChildVisit(_, _, _)
visitNodes(st, node) ==
    LET st1 == VisitOne(st, node)
    IN  IF st1.threw THEN st1 ELSE ForEachChildVisit(st1, node.children, 1)

ForEachChildVisit(st, children, i) ==
    IF i > Len(children) \/ st.threw THEN st
    ELSE ForEachChildVisit(visitNodes(st, children[i]), children, i + 1)

\* ExtractReferences returning {} as soon as the file is not resolved
ExtractReferencesEmptyIfUnresolved(currentFile, parentObjects, proto) ==
    IF currentFile.kind = "undefined" THEN NewCall(proto)
    ELSE ForEachChildVisit(InitialEntities(parentObjects, 1, NewCall(proto)),
                           currentFile.children, 1)

\* lines 441-492: the whole call; currentFile is NoSourceFile if there is no
\* program or no such source file
ExtractReferences(currentFile, parentObjects, proto) ==
    LET st == InitialEntities(parentObjects, 1, NewCall(proto))
    IN  IF currentFile.kind = "undefined" THEN st
        ELSE ForEachChildVisit(st, currentFile.children, 1)

(***************************************************************************)
(* The worker as a state machine.                                          *)
(*   hasProgram, sourceFiles   what languageService.getProgram() and       *)
(*                             program.getSourceFile(fileName) answer      *)
(*   objectPrototype           own keys added to Object.prototype          *)
(*   pc, op, fileName, parentObjects   the call in progress or returned    *)
(*   referencedEntities, threw         result of getPropertiesOr...        *)
(*   tokens, ordinal, indentation      locals of getOutline                *)
(*   stack                     the active buildOutline invocations: the    *)
(*                             node, its parent, the next child to visit,  *)
(*                             didIndent, and the indentation on entry     *)
(*   origins                   history: for each token, the path (child    *)
(*                             indexes from the source file) of the node   *)
(*                             that produced it                            *)
(*   firstCall                 history: the arguments and the result of    *)
(*                             the first call that returned, when the      *)
(*                             behaviour records it                        *)
(***************************************************************************)
VARIABLES hasProgram, sourceFiles, objectPrototype, pc, op, fileName,
          parentObjects, referencedEntities, threw, tokens, ordinal,
          indentation, stack, origins, firstCall

(***************************************************************************)
(* The worker as language service host and front of the language features  *)
(* (src/src/tsWorker.ts, lines 17-435):                                    *)
(*   mirrorModels      the URIs of ctx.getMirrorModels()                   *)
(*   workerExtraLibs   TypeScriptWorker._extraLibs                         *)
(*   feature           the language-feature call that returned last: its   *)
(*                     operation, file name, result, whether the language  *)
(*                     service was consulted and the script file names it  *)
(*                     was given                                           *)
(*   reported          history: the <<path, version, content>> triples the *)
(*                     host has reported for extra libs                    *)
(* The defaults object LanguageServiceDefaultsImpl                         *)
(* (src/src/monaco.contribution.ts, lines 27-127):                         *)
(*   extraLibs         _extraLibs: path -> content, version; the field by  *)
(*                     is history: the call that installed the entry       *)
(*   timeout           _onDidExtraLibsChangeTimeout                        *)
(*   timers, nextTimer the pending setTimeout callbacks and the id the     *)
(*                     next setTimeout returns                             *)
(*   events            how often _onDidExtraLibsChange has fired           *)
(*   handles           the disposables addExtraLib has returned: the       *)
(*                     filePath and myVersion their closure captured       *)
(*   calls             how many calls the defaults object has received     *)
(*   lastCall          history: the last call, and what it did             *)
(***************************************************************************)
VARIABLES mirrorModels, workerExtraLibs, feature, reported,
          extraLibs, timeout, timers, nextTimer, events, handles, calls,
          lastCall

analysis == <<hasProgram, sourceFiles, objectPrototype, pc, op, fileName,
              parentObjects, referencedEntities, threw, tokens, ordinal,
              indentation, stack, origins, firstCall>>

host == <<mirrorModels, workerExtraLibs, feature, reported>>

defaults == <<extraLibs, timeout, timers, nextTimer, events, handles, calls,
              lastCall>>

vars == <<analysis, host, defaults>>

program == <<hasProgram, sourceFiles>>

NoEntities == [k \in {} |-> {}]

\* CurrentFile without the test of `program`
CurrentFileIgnoringProgram(f) ==
    IF f \in DOMAIN sourceFiles THEN sourceFiles[f] ELSE NoSourceFile

\* program.getSourceFile(fileName), or NoSourceFile without a program
CurrentFile(f) ==
    IF hasProgram /\ f \in DOMAIN sourceFiles THEN sourceFiles[f] ELSE NoSourceFile

\* the record of a returned call
CallRecord(o, f, roots, entities, error, toks) ==
    [op |-> o, fileName |-> f, parentObjects |-> roots,
     referencedEntities |-> entities, threw |-> error, tokens |-> toks]

NotRecording == CallRecord("off", "", <<>>, NoEntities, FALSE, <<>>)
NothingRecorded == CallRecord("none", "", <<>>, NoEntities, FALSE, <<>>)

Remember(call) == IF firstCall.op = "none" THEN call ELSE firstCall

Frame(node, parentNode, indented, entry) ==
    [node |-> node, parent |-> parentNode, next |-> 1, didIndent |-> indented,
     entry |-> entry]

\* lines 742-770 for one node: the switch of buildOutline
EnterNode(node, parentNode, path) ==
    /\ tokens' = tokens \o PushedTokens(node, parentNode, ordinal, indentation)
    /\ origins' = origins \o
            [i \in 1..Len(PushedTokens(node, parentNode, ordinal, indentation)) |-> path]
    /\ ordinal' = OrdinalAfter(node, ordinal)
    /\ indentation' = IF didIndent(node) THEN indentation + 1 ELSE indentation

\* getPropertiesOrAttributesOf(fileName, parentObjects), lines 437-493
GetPropertiesOrAttributesOf(f, roots) ==
    /\ pc = "idle"
    /\ LET st == ExtractReferences(CurrentFile(f), roots, objectPrototype)
           entities == IF st.threw THEN NoEntities ELSE st.own
       IN  /\ referencedEntities' = entities
           /\ threw' = st.threw
           /\ objectPrototype' = st.proto
           /\ firstCall' = Remember(CallRecord("getPropertiesOrAttributesOf",
                                               f, roots, entities, st.threw, <<>>))
    /\ pc' = "returned"
    /\ op' = "getPropertiesOrAttributesOf"
    /\ fileName' = f
    /\ parentObjects' = roots
    /\ tokens' = <<>>
    /\ ordinal' = 0
    /\ indentation' = 0
    /\ stack' = <<>>
    /\ origins' = <<>>
    /\ UNCHANGED program
    /\ UNCHANGED <<host, defaults>>

\* getOutline(fileName), lines 495-502 and 776: up to the call
\* buildOutline(currentFile) entering the source file
GetOutline(f) ==
    /\ pc = "idle"
    /\ op' = "getOutline"
    /\ fileName' = f
    /\ parentObjects' = <<>>
    /\ referencedEntities' = NoEntities
    /\ threw' = FALSE
    /\ IF CurrentFile(f).kind = "undefined"
       THEN /\ pc' = "returned"
            /\ tokens' = <<>>
            /\ ordinal' = 0
            /\ indentation' = 0
            /\ stack' = <<>>
            /\ origins' = <<>>
            /\ firstCall' = Remember(CallRecord("getOutline", f, <<>>,
                                                NoEntities, FALSE, <<>>))
       ELSE /\ pc' = "buildOutline"
            /\ firstCall' = firstCall
            /\ tokens' = PushedTokens(CurrentFile(f), NoSourceFile, 0, 0)
            /\ origins' = [i \in 1..Len(PushedTokens(CurrentFile(f), NoSourceFile, 0, 0))
                             |-> <<>>]
            /\ ordinal' = OrdinalAfter(CurrentFile(f), 0)
            /\ indentation' = IF didIndent(CurrentFile(f)) THEN 1 ELSE 0
            /\ stack' = <<Frame(CurrentFile(f), NoSourceFile,
                                didIndent(CurrentFile(f)), 0)>>
    /\ UNCHANGED <<program, objectPrototype>>
    /\ UNCHANGED <<host, defaults>>

Top == stack[Len(stack)]

\* the path of the next child of the top frame
NextPath ==
    [k \in 1..Len(stack) |->
        IF k < Len(stack) THEN stack[k].next - 1 ELSE stack[k].next]

\* ts.forEachChild(node, buildOutline), line 772: the call for the next child
BuildOutlineChild ==
    /\ pc = "buildOutline"
    /\ Top.next <= Len(Top.node.children)
    /\ LET child == Top.node.children[Top.next]
       IN  /\ EnterNode(child, Top.node, NextPath)
           /\ stack' = [stack EXCEPT ![Len(stack)].next = @ + 1]
                         \o <<Frame(child, Top.node, didIndent(child), indentation)>>
    /\ UNCHANGED <<program, objectPrototype, pc, op, fileName, parentObjects,
                   referencedEntities, threw, firstCall>>
    /\ UNCHANGED <<host, defaults>>

\* line 773: the children are traversed; buildOutline returns, and with the
\* outermost invocation getOutline returns tokens (line 779)
BuildOutlineReturn ==
    /\ pc = "buildOutline"
    /\ Top.next > Len(Top.node.children)
    /\ indentation' = IndentationAfterChildren(Top.didIndent, indentation)
    /\ stack' = SubSeq(stack, 1, Len(stack) - 1)
    /\ pc' = IF Len(stack) = 1 THEN "returned" ELSE "buildOutline"
    /\ firstCall' = IF Len(stack) = 1
                    THEN Remember(CallRecord("getOutline", fileName, <<>>,
                                             NoEntities, FALSE, tokens))
                    ELSE firstCall
    /\ UNCHANGED <<program, objectPrototype, op, fileName, parentObjects,
                   referencedEntities, threw, tokens, ordinal, origins>>
    /\ UNCHANGED <<host, defaults>>

\* lines 492 and 779: the result is handed to the caller and the locals of
\* the call are gone; Object.prototype stays as the call left it
Reply ==
    /\ pc = "returned"
    /\ pc' = "idle"
    /\ op' = "none"
    /\ fileName' = ""
    /\ parentObjects' = <<>>
    /\ referencedEntities' = NoEntities
    /\ threw' = FALSE
    /\ tokens' = <<>>
    /\ ordinal' = 0
    /\ indentation' = 0
    /\ stack' = <<>>
    /\ origins' = <<>>
    /\ UNCHANGED <<program, objectPrototype, firstCall>>
    /\ UNCHANGED <<host, defaults>>

(***************************************************************************)
(* Inputs: source files, written as the trees the parser builds for them.  *)
(***************************************************************************)
NumberOne == NumericLiteral("1")
FunctionDeclaration(n, body) == Node("FunctionDeclaration", Ident(n), <<Block(body)>>)
FunctionExpression(body) == Node("FunctionExpression", NoName, <<Block(body)>>)
ArrowFunction(body) == Node("ArrowFunction", NoName, <<Block(body)>>)
Method(kind, n, body) == Node(kind, Ident(n), <<Block(body)>>)
Constructor(body) == Node("Constructor", NoName, <<Block(body)>>)
PropertyAssignment(n, e) == Node("PropertyAssignment", Ident(n), <<e>>)
ObjectLiteral(props) == Node("ObjectLiteralExpression", NoName, props)
VariableDeclaration(n, e) == Node("VariableDeclaration", Ident(n), <<e>>)
VariableStatement(n, e) ==
    Node("VariableStatement", NoName,
         <<Node("VariableDeclarationList", NoName, <<VariableDeclaration(n, e)>>)>>)

\* class Foo { constructor() {body} bar() {} get x() {} }
ClassFoo(body) ==
    Node("ClassDeclaration", Ident("Foo"),
         <<At(1, Constructor(body)), At(2, Method("MethodDeclaration", "bar", <<>>)),
           At(3, Method("GetAccessor", "x", <<>>))>>)

\* const o = { run: function() {body} }
ConstRun(body) ==
    VariableStatement("o",
        ObjectLiteral(<<PropertyAssignment("run", FunctionExpression(body))>>))

\* const o = { x: 1, y: () => {body} }
ConstPlain(body) ==
    VariableStatement("o",
        ObjectLiteral(<<PropertyAssignment("x", NumberOne),
                        PropertyAssignment("y", ArrowFunction(body))>>))

\* interface I { m(): void }
InterfaceI ==
    Node("InterfaceDeclaration", Ident("I"),
         <<Node("MethodSignature", Ident("m"), <<>>)>>)

\* factory.create(function() {body})
CallCreate(body) ==
    ExpressionStatement(
        Call(PropertyAccess(Identifier("factory"), "create"),
             <<FunctionExpression(body)>>))

\* a.b = function() {body}
AssignMember(body) ==
    ExpressionStatement(
        Binary(PropertyAccess(Identifier("a"), "b"), "=", FunctionExpression(body)))

\* h = () => {body}
AssignIdentifier(body) ==
    ExpressionStatement(Binary(Identifier("h"), "=", ArrowFunction(body)))

\* K = class { set v(p) {body} }
AssignClass(body) ==
    ExpressionStatement(
        Binary(Identifier("K"), "=",
               Node("ClassExpression", NoName, <<Method("SetAccessor", "v", body)>>)))

\* g({ get v() {body} })
CallWithLiteral(body) ==
    ExpressionStatement(
        Call(Identifier("g"), <<ObjectLiteral(<<Method("GetAccessor", "v", body)>>)>>))

\* the declarations of the outline, each around the statements `body`
OutlineShapes(body) ==
    {FunctionDeclaration("f", body), ClassFoo(body), ConstRun(body),
     ConstPlain(body), CallCreate(body), AssignMember(body),
     AssignIdentifier(body), AssignClass(body), CallWithLiteral(body)}

\* how deep the declarations of a generated file nest
MaxNesting == 1

RECURSIVE OutlineStatements(_)
OutlineStatements(depth) ==
    IF depth = 0 THEN OutlineShapes(<<>>) \cup {InterfaceI}
    ELSE OutlineStatements(depth - 1)
            \cup UNION {OutlineShapes(<<s>>) : s \in OutlineStatements(depth - 1)}

\* const o = { x: 1 }
ConstX == VariableStatement("o", ObjectLiteral(<<PropertyAssignment("x", NumberOne)>>))

OutlinePairs ==
    {<<s, t>> : s, t \in {InterfaceI, FunctionDeclaration("f", <<>>), ConstX,
                           ClassFoo(<<>>)}}

\* base.member and base[index] for the bases and indexes below
BaseTexts == {"Things", "Users", "__proto__", "constructor"}
MemberNames == {"sensor", "constructor"}

\* Things.sensor as an index, with the type the checker infers for it
TypedIndex(type) == OfType(type, PropertyAccess(Identifier("Things"), "sensor"))

IndexExpressions ==
    {Identifier("principal"), Identifier("someRuntimeVar"),
     StringLiteral("lamp"), NumericLiteral("0"),
     Leaf("CallExpression", "lamp()"),
     TypedIndex(AnyType), TypedIndex(StringLiteralType("lamp")),
     TypedIndex(NumberLiteralType("5"))}

AccessExpressions ==
    {PropertyAccess(Identifier(b), m) : b \in BaseTexts, m \in MemberNames}
        \cup {ElementAccess(Identifier(b), a) : b \in BaseTexts, a \in IndexExpressions}

\* e;   e.state;   function f() { e }
AccessStatements ==
    {ExpressionStatement(e) : e \in AccessExpressions}
        \cup {ExpressionStatement(PropertyAccess(e, "state")) : e \in AccessExpressions}
        \cup {FunctionDeclaration("f", <<ExpressionStatement(e)>>) :
                e \in AccessExpressions}

AccessPairs ==
    {<<ExpressionStatement(s), ExpressionStatement(t)>> :
        s, t \in {PropertyAccess(Identifier("Things"), "sensor"),
                  PropertyAccess(Identifier("__proto__"), "sensor"),
                  ElementAccess(Identifier("Things"), StringLiteral("lamp")),
                  ElementAccess(Identifier("__proto__"), StringLiteral("sensor")),
                  ElementAccess(Identifier("__proto__"), StringLiteral("Users")),
                  ElementAccess(Identifier("Users"), Identifier("principal"))}}

SourceFiles ==
    {SourceFile(<<>>)}
        \cup {SourceFile(<<s>>) : s \in OutlineStatements(MaxNesting) \cup AccessStatements}
        \cup {SourceFile(p) : p \in OutlinePairs \cup AccessPairs}

\* files the worker mirrors while the language service has no program
UnboundFiles ==
    {SourceFile(<<ClassFoo(<<>>)>>),
     SourceFile(<<ExpressionStatement(PropertyAccess(Identifier("Things"), "sensor"))>>)}

\* files of a program in which calls are repeated
RepeatedFiles ==
    {SourceFile(<<ClassFoo(<<>>)>>),
     SourceFile(<<InterfaceI, ConstRun(<<>>)>>),
     SourceFile(<<ExpressionStatement(PropertyAccess(Identifier("Things"), "sensor"))>>),
     SourceFile(<<ExpressionStatement(PropertyAccess(Identifier("Things"), "sensor")),
                  ExpressionStatement(PropertyAccess(Identifier("__proto__"), "sensor"))>>),
     SourceFile(<<ExpressionStatement(
                    ElementAccess(Identifier("Users"), Identifier("principal"))),
                  ExpressionStatement(
                    ElementAccess(Identifier("__proto__"), StringLiteral("Users")))>>)}

\* the names a caller passes as parentObjects, and how many
RootNames == {"Things", "Users", "__proto__"}
MaxRoots == 2
ParentObjects == UNION {[1..n -> RootNames] : n \in 0..MaxRoots}

FileNames == {"a.ts", "b.ts"}

(***************************************************************************)
(* The worker as host of the language service: lib files, script file      *)
(* names, versions and texts, and the language features.                   *)
(***************************************************************************)
\* a monaco Uri and Uri.toString()
Uri(scheme, authority, path) ==
    [scheme |-> scheme, authority |-> authority, path |-> path]
UriToString(uri) == uri.scheme \o "://" \o uri.authority \o uri.path

\* a mirror model: its uri, its version and its text
MirrorModel(uri, version, value) ==
    [uri |-> uri, version |-> version, value |-> value]

\* libFileMap (imported at line 8): default lib file name -> text
LibFileMap ==
    [name \in {"lib.d.ts", "lib.es5.d.ts"} |-> "declare var NaN: number;"]

\* !!libFileMap[name]
InLibFileMap(name) == name \in DOMAIN LibFileMap /\ LibFileMap[name] # ""

\* String.prototype.indexOf(prefix) === 0, and /^prefix/.test(s)
StartsWith(s, prefix) ==
    Len(s) >= Len(prefix) /\ SubSeq(s, 1, Len(prefix)) = prefix

\* fileNameIsLib(resource) for a resource that is a string
fileNameIsLib(resource) ==
    IF StartsWith(resource, "file:///")
    THEN InLibFileMap(SubSeq(resource, 9, Len(resource)))
    ELSE FALSE

\* fileNameIsLib(resource) for a resource that is a Uri
fileNameIsLibUri(resource) ==
    IF StartsWith(resource.path, "/lib.")
    THEN InLibFileMap(SubSeq(resource.path, 2, Len(resource.path)))
    ELSE FALSE

\* getScriptFileNames(): the models that are no lib files, and the extra libs
getScriptFileNames ==
    {UriToString(model.uri) : model \in {m \in mirrorModels : ~fileNameIsLibUri(m.uri)}}
        \cup DOMAIN workerExtraLibs

\* _getModel(fileName): the models with that uri (null if there is none)
getModel(f) == {model \in mirrorModels : UriToString(model.uri) = f}

\* getDefaultLibFileName(this._compilerOptions) for the target ES5
getDefaultLibFileName == "lib.d.ts"
isDefaultLibFileName(f) == f = getDefaultLibFileName

\* getScriptVersion(fileName)
getScriptVersion(f) ==
    IF getModel(f) # {} THEN ToString((CHOOSE model \in getModel(f) : TRUE).version)
    ELSE IF isDefaultLibFileName(f) THEN "1"
    ELSE IF f \in DOMAIN workerExtraLibs THEN ToString(workerExtraLibs[f].version)
    ELSE ""

\* _getScriptText(fileName); <<>> stands for undefined
getScriptText(f) ==
    IF getModel(f) # {} THEN <<(CHOOSE model \in getModel(f) : TRUE).value>>
    ELSE IF f \in DOMAIN LibFileMap THEN <<LibFileMap[f]>>
    ELSE IF ("lib." \o f \o ".d.ts") \in DOMAIN LibFileMap
         THEN <<LibFileMap["lib." \o f \o ".d.ts"]>>
    ELSE IF f \in DOMAIN workerExtraLibs THEN <<workerExtraLibs[f].content>>
    ELSE <<>>

\* the language features that test fileNameIsLib first (lines 221-431), with
\* what they return for a lib file
EmptyResult ==
    [getSyntacticDiagnostics |-> "[]",
     getSemanticDiagnostics |-> "[]",
     getSuggestionDiagnostics |-> "[]",
     getCompilerOptionsDiagnostics |-> "[]",
     getCompletionsAtPosition |-> "undefined",
     getSignatureHelpItems |-> "undefined",
     getQuickInfoAtPosition |-> "undefined",
     getOccurrencesAtPosition |-> "undefined",
     getDefinitionAtPosition |-> "undefined",
     getReferencesAtPosition |-> "undefined",
     getNavigationBarItems |-> "[]",
     getFormattingEditsForDocument |-> "[]",
     getFormattingEditsForRange |-> "[]",
     getFormattingEditsAfterKeystroke |-> "[]",
     findRenameLocations |-> "undefined",
     getRenameInfo |-> "{canRename: false}",
     getEmitOutput |-> "{outputFiles: [], emitSkipped: true}",
     getCodeFixesAtPosition |-> "[]"]

\* the language features of the worker: those above and
\* getCompletionEntryDetails (lines 263-277)
LanguageFeatures == DOMAIN EmptyResult \cup {"getCompletionEntryDetails"}

FeatureCall(name, f, result, consulted, names) ==
    [op |-> name, fileName |-> f, result |-> result, consulted |-> consulted,
     scriptFileNames |-> names]

NoFeature == FeatureCall("none", "", "", FALSE, {})

\* what the language service answers: its result, or for
\* getCodeFixesAtPosition an exception, which the feature turns into []
ServiceResults(name) ==
    {"languageService"} \cup (IF name = "getCodeFixesAtPosition" THEN {"[]"} ELSE {})

\* a language feature called with fileName f (lines 221-431): the feature
\* returns its empty result for a lib file, and otherwise asks the language
\* service, which reads the script file names from its host
LanguageFeature(name, f) ==
    /\ IF name \in DOMAIN EmptyResult /\ fileNameIsLib(f)
       THEN feature' = FeatureCall(name, f, EmptyResult[name], FALSE, {})
       ELSE \E result \in ServiceResults(name) :
                feature' = FeatureCall(name, f, result, TRUE, getScriptFileNames)
    /\ UNCHANGED <<mirrorModels, workerExtraLibs, reported>>
    /\ UNCHANGED <<analysis, defaults>>

\* the language service reads the version and the text of a script file
\* (getScriptVersion, lines 89-100; getScriptSnapshot, lines 127-138)
GetScriptVersion(f) ==
    /\ f \in getScriptFileNames
    /\ reported' = reported \cup {<<f, getScriptVersion(f), getScriptText(f)>>}
    /\ UNCHANGED <<mirrorModels, workerExtraLibs, feature>>
    /\ UNCHANGED <<analysis, defaults>>

\* updateExtraLibs(extraLibs), lines 433-435, called with the extra libs of
\* the defaults object (getExtraLibs(), monaco.contribution.ts line 54)
UpdateExtraLibs ==
    /\ workerExtraLibs' =
            [path \in DOMAIN extraLibs |->
                [content |-> extraLibs[path].content,
                 version |-> extraLibs[path].version]]
    /\ workerExtraLibs' # workerExtraLibs
    /\ UNCHANGED <<mirrorModels, feature, reported>>
    /\ UNCHANGED <<analysis, defaults>>

(***************************************************************************)
(* LanguageServiceDefaultsImpl (src/src/monaco.contribution.ts): the extra *)
(* libs and the debounced onDidExtraLibsChange event.                      *)
(***************************************************************************)
\* an entry of _extraLibs; `by` is history: the handle (index in handles) of
\* the addExtraLib call that installed it, or BySetExtraLibs
ExtraLib(content, version, by) ==
    [content |-> content, version |-> version, by |-> by]

BySetExtraLibs == 0

\* Object.create(null)
NoExtraLibs == <<>>

\* libs[filePath] = lib
PutExtraLib(libs, filePath, lib) ==
    [path \in DOMAIN libs \cup {filePath} |->
        IF path = filePath THEN lib ELSE libs[path]]

\* delete libs[filePath]
DeleteExtraLib(libs, filePath) ==
    [path \in DOMAIN libs \ {filePath} |-> libs[path]]

\* the disposable addExtraLib returns: noop for the one of lines 68-70, else
\* the closure of lines 85-96 over filePath and myVersion; disposed is
\* history: whether dispose() was called on it
Handle(noop, filePath, myVersion) ==
    [noop |-> noop, filePath |-> filePath, myVersion |-> myVersion,
     disposed |-> FALSE]

\* the record of a call: for addExtraLib and dispose the handle (its index in
\* handles), for addExtraLib the content; changed tells whether _extraLibs was written; removedBy is the
\* `by` of the entry a dispose deleted (-1: none); again tells whether the handle had
\* been disposed before
LibsCall(name, handle, content, changed, removedBy, again) ==
    [op |-> name, handle |-> handle, content |-> content, changed |-> changed,
     removedBy |-> removedBy, again |-> again]

NoCall == LibsCall("none", 0, "", FALSE, -1, FALSE)

\* _fireOnDidExtraLibsChangeSoon without the test of the pending timeout
fireOnDidExtraLibsChangeSoonAlways ==
    /\ timeout' = nextTimer
    /\ timers' = timers \cup {nextTimer}
    /\ nextTimer' = nextTimer + 1

\* _fireOnDidExtraLibsChangeSoon(), lines 118-127: setTimeout returns the id
\* nextTimer and queues the callback
fireOnDidExtraLibsChangeSoon ==
    IF timeout # -1
    THEN UNCHANGED <<timeout, timers, nextTimer>>
    ELSE /\ timeout' = nextTimer
         /\ timers' = timers \cup {nextTimer}
         /\ nextTimer' = nextTimer + 1

\* how many calls a behaviour makes on the defaults object
MaxCalls == 3

\* Math.random().toString(36).substring(2, 15), lines 61 and 106: thirteen
\* random digits, taken to give a path that is not in use
FreshPath(random) ==
    /\ random \notin DOMAIN extraLibs
    /\ \A h \in DOMAIN handles : handles[h].filePath # random

\* addExtraLib(content, _filePath), lines 58-98; _filePath is <<>> for
\* undefined, and random is the path Math.random gives
AddExtraLib(content, _filePath, random) ==
    /\ calls < MaxCalls
    /\ _filePath = <<>> => FreshPath(random)
    /\ LET filePath == IF _filePath = <<>> THEN random ELSE _filePath[1]
           exists == filePath \in DOMAIN extraLibs
           myVersion == IF exists THEN extraLibs[filePath].version + 1 ELSE 1
           handle == Len(handles) + 1
       IN  IF exists /\ extraLibs[filePath].content = content
           THEN /\ handles' = Append(handles, Handle(TRUE, filePath, 0))
                /\ lastCall' = LibsCall("addExtraLib", handle, content, FALSE, -1, FALSE)
                /\ UNCHANGED <<extraLibs, timeout, timers, nextTimer>>
           ELSE /\ extraLibs' = PutExtraLib(extraLibs, filePath,
                                            ExtraLib(content, myVersion, handle))
                /\ fireOnDidExtraLibsChangeSoon
                /\ handles' = Append(handles, Handle(FALSE, filePath, myVersion))
                /\ lastCall' = LibsCall("addExtraLib", handle, content, TRUE, -1, FALSE)
    /\ calls' = calls + 1
    /\ UNCHANGED events
    /\ UNCHANGED <<analysis, host>>

\* dispose() of the handle h, lines 85-96 (line 69 for a no-op handle)
Dispose(h) ==
    /\ calls < MaxCalls
    /\ LET handle == handles[h]
           filePath == handle.filePath
       IN  IF \/ handle.noop
              \/ filePath \notin DOMAIN extraLibs
              \/ extraLibs[filePath].version # handle.myVersion
           THEN /\ lastCall' = LibsCall("dispose", h, "", FALSE, -1, handle.disposed)
                /\ UNCHANGED <<extraLibs, timeout, timers, nextTimer>>
           ELSE /\ extraLibs' = DeleteExtraLib(extraLibs, filePath)
                /\ fireOnDidExtraLibsChangeSoon
                /\ lastCall' = LibsCall("dispose", h, "", TRUE,
                                        extraLibs[filePath].by, handle.disposed)
    /\ handles' = [handles EXCEPT ![h].disposed = TRUE]
    /\ calls' = calls + 1
    /\ UNCHANGED events
    /\ UNCHANGED <<analysis, host>>

\* lines 105-113: the loop of setExtraLibs from lib i on; a lib's filePath
\* is <<>> when it is missing or empty
RECURSIVE SetLibsFrom(_, _, _, _)
SetLibsFrom(result, libs, randoms, i) ==
    IF i > Len(libs) THEN result
    ELSE LET filePath == IF libs[i].filePath = <<>> THEN randoms[i]
                         ELSE libs[i].filePath[1]
         IN  SetLibsFrom(PutExtraLib(result, filePath,
                                     ExtraLib(libs[i].content, 1, BySetExtraLibs)),
                         libs, randoms, i + 1)

\* setExtraLibs(libs), lines 100-116; randoms[i] is the path Math.random
\* gives for lib i
SetExtraLibs(libs, randoms) ==
    /\ calls < MaxCalls
    /\ \A i \in DOMAIN libs :
          libs[i].filePath = <<>> =>
              /\ FreshPath(randoms[i])
              /\ \A j \in DOMAIN libs \ {i} : randoms[j] # randoms[i]
    /\ extraLibs' = SetLibsFrom(NoExtraLibs, libs, randoms, 1)
    /\ fireOnDidExtraLibsChangeSoon
    /\ lastCall' = LibsCall("setExtraLibs", 0, "", TRUE, -1, FALSE)
    /\ calls' = calls + 1
    /\ UNCHANGED <<events, handles>>
    /\ UNCHANGED <<analysis, host>>

\* the callback of setTimeout, lines 123-126: the timer t runs
OnDidExtraLibsChangeTimeout(t) ==
    /\ t \in timers
    /\ timers' = timers \ {t}
    /\ timeout' = -1
    /\ events' = events + 1
    /\ UNCHANGED <<extraLibs, nextTimer, handles, calls, lastCall>>
    /\ UNCHANGED <<analysis, host>>

\* the inputs of the defaults object
Contents == {"declare var a: number;", "declare var b: string;"}
ExplicitPaths == {"a.d.ts"}
RandomPaths == {"ts:extralib-k3j2x9", "ts:extralib-9qw41z"}
FilePathArguments == {<<>>} \cup {<<path>> : path \in ExplicitPaths}
Libs == [content : Contents, filePath : FilePathArguments]
LibLists == {<<>>} \cup {<<lib>> : lib \in Libs} \cup {<<l, m>> : l, m \in Libs}

(***************************************************************************)
(* Specification: a program with the source file a.ts (b.ts is not part of *)
(* it), or no program; calls follow one another in any order.              *)
(***************************************************************************)
InitCall ==
    /\ objectPrototype = {}
    /\ pc = "idle"
    /\ op = "none"
    /\ fileName = ""
    /\ parentObjects = <<>>
    /\ referencedEntities = NoEntities
    /\ threw = FALSE
    /\ tokens = <<>>
    /\ ordinal = 0
    /\ indentation = 0
    /\ stack = <<>>
    /\ origins = <<>>

\* the worker with no mirror model and no extra lib (lines 57-65)
InitHost ==
    /\ mirrorModels = {}
    /\ workerExtraLibs = <<>>
    /\ feature = NoFeature
    /\ reported = {}

\* the constructor of LanguageServiceDefaultsImpl
\* (monaco.contribution.ts, lines 38-44)
InitDefaults ==
    /\ extraLibs = NoExtraLibs
    /\ timeout = -1
    /\ timers = {}
    /\ nextTimer = 1
    /\ events = 0
    /\ handles = <<>>
    /\ calls = 0
    /\ lastCall = NoCall

Init ==
    /\ \/ /\ hasProgram = TRUE
          /\ \E tree \in SourceFiles : sourceFiles = [f \in {"a.ts"} |-> tree]
       \/ /\ hasProgram = FALSE
          /\ \E tree \in UnboundFiles : sourceFiles = [f \in {"a.ts"} |-> tree]
    /\ InitCall
    /\ firstCall = NotRecording
    /\ InitHost
    /\ InitDefaults

Next ==
    \/ \E f \in FileNames, roots \in ParentObjects : GetPropertiesOrAttributesOf(f, roots)
    \/ \E f \in FileNames : GetOutline(f)
    \/ BuildOutlineChild
    \/ BuildOutlineReturn
    \/ Reply

Spec == Init /\ [][Next]_vars

(***************************************************************************)
(* Specification of repeated calls: a program with the source files a.ts   *)
(* and b.ts; the first call that returns is recorded in firstCall.         *)
(***************************************************************************)
InitRepeat ==
    /\ hasProgram = TRUE
    /\ sourceFiles \in [FileNames -> RepeatedFiles]
    /\ InitCall
    /\ firstCall = NothingRecorded
    /\ InitHost
    /\ InitDefaults

SpecRepeat == InitRepeat /\ [][Next]_vars

(***************************************************************************)
(* Specification of the language features: the worker mirrors any of the   *)
(* models below and may hold an extra lib; features are called with the    *)
(* file names of these models.                                             *)
(***************************************************************************)
ModelUris ==
    {Uri("file", "", "/main.ts"), Uri("file", "", "/lib.d.ts"),
     Uri("file", "", "/lib.foo.ts"), Uri("file", "", "/sub/lib.d.ts"),
     Uri("inmemory", "model", "/lib.es5.d.ts")}

MirrorModels == {MirrorModel(uri, 1, "var x = 1;") : uri \in ModelUris}

InitAnalysisIdle ==
    /\ hasProgram = FALSE
    /\ sourceFiles = [f \in {"a.ts"} |-> SourceFile(<<>>)]
    /\ InitCall
    /\ firstCall = NotRecording

InitFeatures ==
    /\ InitAnalysisIdle
    /\ mirrorModels \in SUBSET MirrorModels
    /\ workerExtraLibs \in
            {<<>>, [path \in {"a.d.ts"} |->
                        [content |-> "declare var a: number;", version |-> 1]]}
    /\ feature = NoFeature
    /\ reported = {}
    /\ InitDefaults

NextFeatures ==
    \E name \in LanguageFeatures, uri \in ModelUris :
        LanguageFeature(name, UriToString(uri))

SpecFeatures == InitFeatures /\ [][NextFeatures]_vars

(***************************************************************************)
(* Specification of the extra libs: calls on the defaults object and the   *)
(* timer.  SpecLibsFair adds that a pending timer runs.  In SpecVersions   *)
(* the worker is handed the extra libs and reports their versions.         *)
(***************************************************************************)
InitLibs ==
    /\ InitAnalysisIdle
    /\ InitHost
    /\ InitDefaults

NextLibs ==
    \/ \E content \in Contents, _filePath \in FilePathArguments,
          random \in RandomPaths : AddExtraLib(content, _filePath, random)
    \/ \E h \in DOMAIN handles : Dispose(h)
    \/ \E libs \in LibLists, randoms \in [1..2 -> RandomPaths] :
          SetExtraLibs(libs, randoms)
    \/ \E t \in timers : OnDidExtraLibsChangeTimeout(t)

SpecLibs == InitLibs /\ [][NextLibs]_vars

SpecLibsFair ==
    SpecLibs /\ WF_vars(\E t \in timers : OnDidExtraLibsChangeTimeout(t))

NextVersions ==
    \/ NextLibs
    \/ UpdateExtraLibs
    \/ \E f \in ExplicitPaths \cup RandomPaths : GetScriptVersion(f)

SpecVersions == InitLibs /\ [][NextVersions]_vars

(***************************************************************************)
(* Properties.                                                             *)
(***************************************************************************)
Range(seq) == {seq[i] : i \in DOMAIN seq}

\* every node below `node`: the nodes visitNodes and buildOutline reach
RECURSIVE Descendants(_)
Descendants(node) ==
    UNION {{node.children[i]} \cup Descendants(node.children[i]) :
            i \in 1..Len(node.children)}

\* the file a returned or running call is about cannot be resolved
Unresolved == ~hasProgram \/ fileName \notin DOMAIN sourceFiles

ReturnedReferences == pc = "returned" /\ op = "getPropertiesOrAttributesOf"
ReturnedOutline == pc = "returned" /\ op = "getOutline"

\* the nodes of the file of the current call
FileNodes == IF Unresolved THEN {} ELSE Descendants(sourceFiles[fileName])

\* path p comes before path q in the depth-first pre-order walk
PathBefore(p, q) ==
    \E i \in 1..Len(q) :
        /\ \A j \in 1..(i - 1) : j <= Len(p) /\ p[j] = q[j]
        /\ \/ i = Len(p) + 1
           \/ i <= Len(p) /\ p[i] < q[i]

\* C1: the map getPropertiesOrAttributesOf returns has exactly the names in
\* parentObjects as its keys, whatever the tree holds.
KeysAreRootNames ==
    (ReturnedReferences /\ ~threw)
        => DOMAIN referencedEntities = Range(parentObjects)

\* C2, as claimed: for a file that cannot be resolved the reference extractor
\* returns an empty map and raises no error.
UnresolvedGivesEmptyMap ==
    (ReturnedReferences /\ Unresolved)
        => (~threw /\ DOMAIN referencedEntities = {})

\* C2, amended: for a file that cannot be resolved the reference extractor
\* raises no error and returns the map as initialised from parentObjects: one
\* key for each root name (none for "__proto__"), each mapped to the empty set.
UnresolvedGivesInitialMap ==
    (ReturnedReferences /\ Unresolved)
        => /\ ~threw
           /\ DOMAIN referencedEntities = Range(parentObjects) \ {"__proto__"}
           /\ \A key \in DOMAIN referencedEntities : referencedEntities[key] = {}

UnresolvedWithRootsReturned ==
    /\ ReturnedReferences
    /\ Unresolved
    /\ hasProgram
    /\ Len(parentObjects) = 2
    /\ Cardinality(DOMAIN referencedEntities) = 2

\* C3: for a file that cannot be resolved (no program, or no such source
\* file) getOutline returns an empty token sequence.
UnresolvedGivesNoTokens ==
    (ReturnedOutline /\ Unresolved) => tokens = <<>>

UnresolvedOutlineReturned ==
    /\ ReturnedOutline
    /\ ~hasProgram
    /\ fileName \in DOMAIN sourceFiles
    /\ Descendants(sourceFiles[fileName]) # {}
    /\ tokens = <<>>

\* C4: tokens are in the pre-order of the nodes that produced them, and
\* their ordinals strictly increase: of any two tokens, the one whose node
\* the walk visits first comes first and has the smaller ordinal.
TokensInPreOrder ==
    op = "getOutline" =>
        /\ Len(origins) = Len(tokens)
        /\ \A i, j \in 1..Len(tokens) :
              i < j => /\ PathBefore(origins[i], origins[j])
                       /\ tokens[i].ordinal < tokens[j].ordinal

NestedAndSiblingTokensReturned ==
    /\ ReturnedOutline
    /\ Len(tokens) >= 4
    /\ \E i, j \in 1..Len(tokens) :
          /\ i < j
          /\ tokens[i].indentAmount > tokens[j].indentAmount

\* C5: the ordinal counter equals the number of tokens pushed so far and the
\* k-th token has ordinal k.
OrdinalsCountTokens ==
    op = "getOutline" =>
        /\ ordinal = Len(tokens)
        /\ \A k \in 1..Len(tokens) : tokens[k].ordinal = k

Indent(frame) == IF frame.didIndent THEN 1 ELSE 0

\* C6: indentation is never negative; while a node's children are walked the
\* indentation is the node's pre-entry value plus its own indent, so it is
\* back at a child's pre-entry value whenever that child's subtree is
\* finished; and it is 0 when getOutline returns.
IndentBalance ==
    /\ indentation >= 0
    /\ ReturnedOutline => indentation = 0
    /\ pc = "buildOutline" =>
          /\ indentation = Top.entry + Indent(Top)
          /\ stack[1].entry = 0
          /\ \A k \in 1..(Len(stack) - 1) :
                stack[k + 1].entry = stack[k].entry + Indent(stack[k])

\* a container nested in a container is finished and the walk is back in the
\* outer one, with a further child still to come
BackInOuterContainer ==
    /\ pc = "buildOutline"
    /\ Len(stack) = 2
    /\ Top.didIndent
    /\ Top.next = 2
    /\ Top.next <= Len(Top.node.children)
    /\ Len(tokens) >= 2
    /\ tokens[Len(tokens)].indentAmount = 1
    /\ indentation = 1

\* node is a member access on the base text `root` naming `member`
IsMemberAccess(node, root, member) ==
    /\ node.kind = "PropertyAccessExpression"
    /\ GetText(Expression(node)) = root
    /\ node.name.text = member

\* node is an element access on the base text `root`, of any index
IsElementAccessOn(node, root) ==
    /\ node.kind = "ElementAccessExpression"
    /\ GetText(Expression(node)) = root

\* ... whose index is the string literal "member"
IsLiteralAccess(node, root, member) ==
    /\ IsElementAccessOn(node, root)
    /\ ArgumentExpression(node).kind = "StringLiteral"
    /\ ArgumentExpression(node).text = "\"" \o member \o "\""

\* ... whose index is a member access of the literal type `member`
IsTypedAccess(node, root, member) ==
    /\ IsElementAccessOn(node, root)
    /\ ArgumentExpression(node).kind = "PropertyAccessExpression"
    /\ ArgumentExpression(node).type.flags \in {"StringLiteral", "NumberLiteral"}
    /\ ArgumentExpression(node).type.value = member

\* ... whose index is the identifier `name`
IsIdentifierAccess(node, root, name) ==
    /\ IsElementAccessOn(node, root)
    /\ ArgumentExpression(node).kind = "Identifier"
    /\ ArgumentExpression(node).text = name

MemberTexts == {"sensor", "constructor", "lamp", "Users", "System", "5"}

\* C7: for every root name R and every node of the tree, at any depth, a
\* member access R.member records member under R and an element access
\* R["lit"] records lit under R (stated for the root names that are keys of
\* the returned map).
AccessesAreRecorded ==
    (ReturnedReferences /\ ~threw) =>
        \A root \in Range(parentObjects) \cap DOMAIN referencedEntities :
            \A node \in FileNodes, member \in MemberTexts :
                (IsMemberAccess(node, root, member)
                    \/ IsLiteralAccess(node, root, member))
                    => member \in referencedEntities[root]

OtherIndexesRecordNothing ==
    (ReturnedReferences /\ ~threw) =>
        \A root \in DOMAIN referencedEntities :
            \A member \in referencedEntities[root] :
                \E node \in FileNodes :
                    \/ IsMemberAccess(node, root, member)
                    \/ IsLiteralAccess(node, root, member)
                    \/ IsTypedAccess(node, root, member)
                    \/ /\ IsIdentifierAccess(node, root, "principal")
                       /\ root = "Users"
                       /\ member = "System"

RuntimeIndexReturned ==
    /\ ReturnedReferences
    /\ ~threw
    /\ parentObjects = <<"Things">>
    /\ \E node \in FileNodes : IsIdentifierAccess(node, "Things", "someRuntimeVar")
    /\ referencedEntities["Things"] = {}

\* C10: a call with the operation, file and parentObjects of an earlier call
\* on the unchanged program returns what the earlier call returned, whatever
\* calls came in between.
RepeatedCallSameResult ==
    (/\ pc = "returned"
     /\ firstCall.op = op
     /\ firstCall.fileName = fileName
     /\ firstCall.parentObjects = parentObjects)
        => /\ firstCall.threw = threw
           /\ firstCall.tokens = tokens
           /\ DOMAIN firstCall.referencedEntities = DOMAIN referencedEntities
           /\ \A key \in DOMAIN referencedEntities :
                 firstCall.referencedEntities[key] = referencedEntities[key]

(***************************************************************************)
(* Properties of the outline that speak of a token's node and ancestors.   *)
(***************************************************************************)
\* the node at `path` (child indexes) below `node`
RECURSIVE NodeAt(_, _)
NodeAt(node, path) ==
    IF path = <<>> THEN node
    ELSE NodeAt(node.children[path[1]], SubSeq(path, 2, Len(path)))

\* the paths of all nodes of the tree `node`
RECURSIVE Paths(_)
Paths(node) ==
    {<<>>} \cup UNION {{<<i>> \o p : p \in Paths(node.children[i])} :
                        i \in 1..Len(node.children)}

\* the tree of a resolved outline call, its nodes by path, and their parents
OutlineFile == sourceFiles[fileName]
OutlineNode(path) == NodeAt(OutlineFile, path)
OutlineParent(path) ==
    IF path = <<>> THEN NoSourceFile
    ELSE NodeAt(OutlineFile, SubSeq(path, 1, Len(path) - 1))

\* the tokens produced by the node at `path`
TokensOf(path) == {i \in 1..Len(tokens) : origins[i] = path}

ClassLike == {"ClassDeclaration", "ClassExpression"}
FunctionLike == {"FunctionDeclaration", "FunctionExpression", "ArrowFunction"}
MethodLike ==
    FunctionLike \cup {"MethodSignature", "MethodDeclaration", "Constructor",
                       "GetAccessor", "SetAccessor"}

\* C12: every node of a method, constructor, function or accessor category
\* (method signature included) emits exactly one token, and indents its
\* subtree: the tokens of the nodes below it lie deeper than its own token.
MethodLikeEmitsOneToken ==
    (ReturnedOutline /\ ~Unresolved) =>
        \A path \in Paths(OutlineFile) :
            OutlineNode(path).kind \in MethodLike =>
                /\ Cardinality(TokensOf(path)) = 1
                /\ \A i \in TokensOf(path), j \in 1..Len(tokens) :
                      (/\ Len(origins[j]) > Len(path)
                       /\ SubSeq(origins[j], 1, Len(path)) = path)
                        => tokens[j].indentAmount > tokens[i].indentAmount

\* C13: the token of a function declaration, function expression or arrow
\* function has kind Method if the node's parent is a property assignment
\* and kind Function otherwise.
FunctionKindFollowsParent ==
    (op = "getOutline" /\ ~Unresolved) =>
        \A i \in 1..Len(tokens) :
            OutlineNode(origins[i]).kind \in FunctionLike =>
                tokens[i].kind =
                    IF OutlineParent(origins[i]).kind = "PropertyAssignment"
                    THEN "Method" ELSE "Function"

\* an object literal with a get/set accessor, a method declaration or a
\* property assignment whose value is a function expression among its direct
\* properties
HasMethodProperty(node) ==
    \E k \in 1..Len(node.children) :
        \/ node.children[k].kind \in {"GetAccessor", "SetAccessor", "MethodDeclaration"}
        \/ /\ node.children[k].kind = "PropertyAssignment"
           /\ Len(node.children[k].children) >= 1
           /\ node.children[k].children[1].kind
                \in {"FunctionDeclaration", "FunctionExpression"}

\* ... or a property assignment whose value is an arrow function
HasFunctionProperty(node) ==
    \/ HasMethodProperty(node)
    \/ \E k \in 1..Len(node.children) :
          /\ node.children[k].kind = "PropertyAssignment"
          /\ Len(node.children[k].children) >= 1
          /\ node.children[k].children[1].kind = "ArrowFunction"

\* class-like nodes, method-like nodes and object literals that are extracted
IsStructuralContainer(node) ==
    \/ node.kind \in ClassLike \cup MethodLike
    \/ node.kind = "ObjectLiteralExpression" /\ HasMethodProperty(node)

\* the proper ancestors of the node at `path` that are structural containers
ContainersAbove(path) ==
    {k \in 0..(Len(path) - 1) : IsStructuralContainer(OutlineNode(SubSeq(path, 1, k)))}

LiteralExtractedIffFunctionProperty ==
    (ReturnedOutline /\ ~Unresolved) =>
        \A path \in Paths(OutlineFile) :
            OutlineNode(path).kind = "ObjectLiteralExpression" =>
                IF HasFunctionProperty(OutlineNode(path))
                THEN /\ Cardinality(TokensOf(path)) = 1
                     /\ \A i \in TokensOf(path) : tokens[i].kind = "ObjectLiteral"
                ELSE TokensOf(path) = {}

\* the justification of a member recorded under `root`, with an index of
\* literal type counted only if the literal is a string
IsStringTypedAccess(node, root, member) ==
    /\ IsTypedAccess(node, root, member)
    /\ ArgumentExpression(node).type.flags = "StringLiteral"

\* C16: an element access on a root name whose index is a member access
\* records the literal string the type lookup finds, and nothing when the
\* type carries no literal string (a literal of another type, or no value):
\* every member recorded under the root comes from a member access, a
\* string-literal index, Users[principal] or an index of literal string type.
TypedIndexRecordsOnlyStrings ==
    (ReturnedReferences /\ ~threw) =>
        \A root \in Range(parentObjects) \cap DOMAIN referencedEntities :
            /\ \A node \in FileNodes :
                  (/\ IsElementAccessOn(node, root)
                   /\ ArgumentExpression(node).kind = "PropertyAccessExpression"
                   /\ ArgumentExpression(node).type.flags = "StringLiteral")
                    => ArgumentExpression(node).type.value \in referencedEntities[root]
            /\ \A member \in referencedEntities[root] :
                  \E node \in FileNodes :
                      \/ IsMemberAccess(node, root, member)
                      \/ IsLiteralAccess(node, root, member)
                      \/ IsStringTypedAccess(node, root, member)
                      \/ /\ IsIdentifierAccess(node, root, "principal")
                         /\ root = "Users"
                         /\ member = "System"

\* the placeholder name of an anonymous function-like node
Placeholder(node) == IF node.kind = "ArrowFunction" THEN "() => {}" ELSE "{}"

\* C17: an anonymous function expression or arrow function whose parent is
\* an assignment `=` is named by the trimmed last line of the text of the
\* left-hand side, whatever its shape; with a compound assignment operator
\* it gets the placeholder name.
AssignedFunctionNamedByLeftSide ==
    (op = "getOutline" /\ ~Unresolved) =>
        \A i \in 1..Len(tokens) :
            LET node == OutlineNode(origins[i])
                parent == OutlineParent(origins[i])
            IN  (/\ node.kind \in {"FunctionExpression", "ArrowFunction"}
                 /\ node.name.kind = "undefined"
                 /\ parent.kind = "BinaryExpression")
                    => tokens[i].name =
                        IF parent.op = "="
                        THEN Trim(LastLine(Trim(GetFullText(Left(parent)))))
                        ELSE Placeholder(node)

(***************************************************************************)
(* Properties of the lib files and the extra libs.                         *)
(***************************************************************************)
\* the uri names an entry of libFileMap; f is the file name of such a uri
NamesLibEntry(uri) == \E name \in DOMAIN LibFileMap : uri.path = "/" \o name
IsLibFileName(f) == \E name \in DOMAIN LibFileMap : f = "file:///" \o name

EmptyResults ==
    {"[]", "undefined", "{canRename: false}", "{outputFiles: [], emitSkipped: true}"}

\* C11: a text model that is a default lib file is hidden from the language
\* service: getScriptFileNames lists no mirror model whose uri names an entry
\* of libFileMap, and every language feature called with a lib file name
\* returns its empty result without consulting the language service.
LibFilesAreHidden ==
    /\ \A model \in mirrorModels :
          NamesLibEntry(model.uri) => UriToString(model.uri) \notin getScriptFileNames
    /\ (feature.op # "none" /\ IsLibFileName(feature.fileName))
          => /\ ~feature.consulted
             /\ feature.result \in EmptyResults

\* C18: the dispose() of the handle an addExtraLib call returned removes an
\* entry only if that call installed the entry (never one installed at the
\* same path by a later addExtraLib or by setExtraLibs), and a second
\* dispose() of the same handle removes nothing.
DisposeRemovesOnlyOwnEntry ==
    (lastCall.op = "dispose" /\ lastCall.changed)
        => /\ lastCall.removedBy = lastCall.handle
           /\ ~lastCall.again

\* C19: the version reported for an extra-lib path identifies its content: no
\* two reports for the same path give the same version with different texts.
VersionIdentifiesContent ==
    \A a, b \in reported : (a[1] = b[1] /\ a[2] = b[2]) => a[3] = b[3]

\* the path of the addExtraLib call that a step makes
AddedPath == handles'[lastCall'.handle].filePath

\* C20, the steps: a call made while a timer is pending starts no timer and
\* fires no event; a call that writes _extraLibs (an add with new content, an
\* effective dispose, any setExtraLibs) leaves a timer pending; an addExtraLib
\* whose content is the content of the entry at its path changes nothing and
\* schedules nothing; the timer fires one event and leaves no timer pending.
DebouncedStep ==
    /\ (calls' # calls /\ timers # {}) => (timers' = timers /\ events' = events)
    /\ (calls' # calls /\ lastCall'.changed) => (timers' # {} /\ timeout' # -1)
    /\ (calls' # calls /\ lastCall'.op = "setExtraLibs") => lastCall'.changed
    /\ (calls' # calls /\ lastCall'.op = "addExtraLib") =>
          IF AddedPath \in DOMAIN extraLibs
                /\ extraLibs[AddedPath].content = lastCall'.content
          THEN UNCHANGED <<extraLibs, timeout, timers, nextTimer, events>>
          ELSE /\ AddedPath \in DOMAIN extraLibs'
               /\ extraLibs'[AddedPath].content = lastCall'.content
               /\ lastCall'.changed
    /\ (calls' # calls /\ lastCall'.op = "dispose")
          => (lastCall'.changed <=> extraLibs' # extraLibs)
    /\ events' # events => (events' = events + 1 /\ timers' = {} /\ timeout' = -1)

\* C20: the change notification is debounced: at most one timer is pending,
\* each timer started gives exactly one event however many calls are made
\* while it is pending, the steps are as DebouncedStep says, and a pending
\* timer is followed by its event.
Debounced ==
    /\ [](/\ Cardinality(timers) <= 1
          /\ (timeout = -1 <=> timers = {})
          /\ events + Cardinality(timers) = nextTimer - 1)
    /\ [][DebouncedStep]_vars
    /\ \A n \in 0..MaxCalls : (timers # {} /\ events = n) ~> (events = n + 1)

\* three calls that wrote _extraLibs while one timer was pending, and the one
\* event they gave
ThreeMutationsOneEvent ==
    /\ calls = 3
    /\ lastCall.changed
    /\ Len(handles) = 2
    /\ \A h \in DOMAIN handles : ~handles[h].noop
    /\ nextTimer = 2
    /\ events = 1
    /\ timers = {}
====
